---- MODULE Spec2Model ----
(***************************************************************************)
(* Tile-boundary extraction of LevelService::init                          *)
(* (src/src/engine/prefabs/services.h): the solid cells of one tileset     *)
(* layer are turned into boundary edges, the edges are walked into loops,  *)
(* each loop is wound so that solid lies on its right, and its collinear   *)
(* points are reduced before it is handed to the chain builder.            *)
(*                                                                         *)
(* A grid corner or a cell is a pair <<x, y>>; an edge is a pair of        *)
(* corners <<a, b>> as struct Edge {a, b}.                                 *)
(***************************************************************************)
EXTENDS Integers, Sequences, FiniteSets, TLC

VARIABLES
    size,       \* layer.getGridSize(): <<width, height>>
    solid,      \* cells whose IntGrid value name is one of collision_names
    cap,        \* the point cap of the walker's safety guard
    pc,         \* position of init() in the layer's extraction
    edges,      \* std::unordered_set<Edge> edges
    adj,        \* std::unordered_map<IntPoint, std::vector<IntPoint>> adj
    start,      \* walker: start
    cur,        \* walker: cur
    prev,       \* walker: prev
    poly,       \* walker: poly
    loops,      \* std::vector<std::vector<IntPoint>> loops (reduced)
    walked,     \* history: poly of each emitted loop after winding, before reduction
    flipped,    \* history: whether std::reverse ran on the poly of this iteration
    discarded,  \* history: the walked sequences dropped by the size filter
    \* Game (framework.h)
    scenes,         \* Game::scenes: scene name -> scene object
    scene_order,    \* Game::scene_order: the names in the order of the add_scene calls
    iter,           \* the iteration order of the hash map scenes, a sequence of its names
    current_scene,  \* Game::current_scene, Null for nullptr
    next_scene,     \* Game::next_scene, Null for nullptr
    scene_state,    \* per scene object: is_init, its services and their is_init;
                    \* history: the number of init() calls of the scene and of each service
    op,             \* history: the last operation called on the Game and its argument
    ret,            \* history: what the last go_to_scene* call returned
    calls,          \* history: the calls on scenes made by the last operation, in order
    \* the layer's physics body (services.h, scene.h)
    service_class,  \* the class of the service: "LevelService" or "LDtkService"
    created,        \* the bodies b2CreateBody has returned
    layer_bodies,   \* the member layer_bodies
    destroy_calls,  \* per body, the number of b2DestroyBody calls on it
    \* ObjectPool (framework.h)
    objects,        \* ObjectPool::objects: is_active of each pooled object
    got,            \* history: the object the last get_object returned, 0 for none
    lent,           \* history: the objects handed out and not returned since
    pool_op         \* history: the last operation called on the pool

extractorVars == <<size, solid, cap, pc, edges, adj, start, cur, prev, poly, loops,
                   walked, flipped, discarded>>

gameVars == <<scenes, scene_order, iter, current_scene, next_scene, scene_state,
              op, ret, calls>>

bodyVars == <<service_class, created, layer_bodies, destroy_calls>>

poolVars == <<objects, got, lent, pool_op>>

vars == <<extractorVars, gameVars, bodyVars, poolVars>>

----------------------------------------------------------------------------
(* Bounds of the checked instances *)

GridW == 2
GridH == 2
MaxSolid == 2
MaxPoly == 4
MaxScenes == 3
MaxCap == 6
MaxPool == 4
MaxAdds == 3

(* Program constant: if (poly.size() > 100000) break; *)
PointCap == 100000

----------------------------------------------------------------------------
(* Arithmetic helpers *)

Abs(n) == IF n < 0 THEN -n ELSE n

Sgn(n) == IF n < 0 THEN -1 ELSE IF n > 0 THEN 1 ELSE 0

RECURSIVE GCD(_, _)
GCD(a, b) == IF b = 0 THEN a ELSE GCD(b, a % b)

Add(p, d) == <<p[1] + d[1], p[2] + d[2]>>

Reverse(s) == [i \in 1..Len(s) |-> s[Len(s) + 1 - i]]

NoPoint == <<-1, -1>>

----------------------------------------------------------------------------
(* Grids *)

Cells(w, h) == (0..(w - 1)) \X (0..(h - 1))

Grid(w, h, s) == [size |-> <<w, h>>, solid |-> s]

(* every grid up to GridW x GridH with at most MaxSolid solid cells,
   widths and heights of 0 included *)
SmallGrids ==
    { Grid(w, h, s) : <<w, h, s>> \in
        { t \in UNION { UNION { { <<w, h, s>> : s \in SUBSET Cells(w, h) }
                                : h \in 0..GridH } : w \in 0..GridW } :
            Cardinality(t[3]) <= MaxSolid } }

(* a filled 3x3 block surrounded by non-solid cells *)
RectGrid == Grid(5, 5, (1..3) \X (1..3))

(* a 5x5 solid block with its centre cell (2,2) non-solid *)
DonutGrid == Grid(5, 5, ((0..4) \X (0..4)) \ {<<2, 2>>})

(* two 2x2 blocks that share no cell side and no cell corner *)
TwoBlocksGrid == Grid(7, 4, ((1..2) \X (1..2)) \cup ((4..5) \X (1..2)))

(* a grid with a ring of non-solid cells put around it *)
Pad(g) == Grid(g.size[1] + 2, g.size[2] + 2, { <<c[1] + 1, c[2] + 1>> : c \in g.solid })

(* two cells touching only at a corner, off the border *)
DiagonalGrid == Pad(Grid(2, 2, {<<0, 0>>, <<1, 1>>}))

Grids == SmallGrids \cup { Pad(g) : g \in SmallGrids }
            \cup {RectGrid, DonutGrid, TwoBlocksGrid}

----------------------------------------------------------------------------
(* LevelService::is_solid: out of bounds is never solid *)
(* mutant: a cell outside the grid counts as solid *)
IsSolidOutside(x, y) ==
    IF x < 0 \/ y < 0 \/ x >= size[1] \/ y >= size[2]
    THEN TRUE
    ELSE <<x, y>> \in solid

is_solid(x, y) ==
    IF x < 0 \/ y < 0 \/ x >= size[1] \/ y >= size[2]
    THEN FALSE
    ELSE <<x, y>> \in solid

(* make_edge: endpoints ordered by x, then y *)
make_edge(p0, p1) ==
    IF p1[1] < p0[1] \/ (p1[1] = p0[1] /\ p1[2] < p0[2])
    THEN <<p1, p0>>
    ELSE <<p0, p1>>

(* mutant: the bottom insert repeats the corners of the top one *)
CellEdgesTopTwice(x, y) ==
    (IF ~is_solid(x, y - 1) THEN {make_edge(<<x, y>>, <<x + 1, y>>)} ELSE {})
    \cup (IF ~is_solid(x, y + 1) THEN {make_edge(<<x, y>>, <<x + 1, y>>)} ELSE {})
    \cup (IF ~is_solid(x - 1, y) THEN {make_edge(<<x, y>>, <<x, y + 1>>)} ELSE {})
    \cup (IF ~is_solid(x + 1, y) THEN {make_edge(<<x + 1, y>>, <<x + 1, y + 1>>)} ELSE {})

(* the four inserts of one solid cell (neighbor empty => boundary edge) *)
CellEdges(x, y) ==
    (IF ~is_solid(x, y - 1) THEN {make_edge(<<x, y>>, <<x + 1, y>>)} ELSE {})
    \cup (IF ~is_solid(x, y + 1) THEN {make_edge(<<x, y + 1>>, <<x + 1, y + 1>>)} ELSE {})
    \cup (IF ~is_solid(x - 1, y) THEN {make_edge(<<x, y>>, <<x, y + 1>>)} ELSE {})
    \cup (IF ~is_solid(x + 1, y) THEN {make_edge(<<x + 1, y>>, <<x + 1, y + 1>>)} ELSE {})

(* mutant: the scan without its skip of non-solid cells *)
CollectEdgesNoSkip ==
    UNION { CellEdges(c[1], c[2]) : c \in Cells(size[1], size[2]) }

(* the scan over all cells: non-solid cells are skipped *)
CollectEdges ==
    UNION { IF ~is_solid(c[1], c[2]) THEN {} ELSE CellEdges(c[1], c[2])
            : c \in Cells(size[1], size[2]) }

(* mutant: the edge is erased as given, not in its canonical form *)
EraseEdgeAsGiven(E, p0, p1) == E \ {<<p0, p1>>}

(* mutant: the consumed edge stays in the set *)
EraseEdgeNever(E, p0, p1) == E

(* erase_edge: remove the undirected edge *)
erase_edge(E, p0, p1) == E \ {make_edge(p0, p1)}

----------------------------------------------------------------------------
(* The adjacency map.  adj[e.a].push_back(e.b); adj[e.b].push_back(e.a) for
   the edges in the iteration order of the unordered_set, which is
   unspecified.  The lists are drawn from the orders that list a corner's
   neighbours by a priority of the four directions: every order of the list
   of any one corner is among them. *)

Dirs == {<<0, -1>>, <<1, 0>>, <<0, 1>>, <<-1, 0>>}

DirOrders == { o \in [1..4 -> Dirs] : \A i, j \in 1..4 : i # j => o[i] # o[j] }

Corners(E) == { e[1] : e \in E } \cup { e[2] : e \in E }

(* mutant: only adj[e.a].push_back(e.b), not the other direction *)
AdjListOneWay(E, p, ord) ==
    LET ds == SelectSeq(ord, LAMBDA d : <<p, Add(p, d)>> \in E)
    IN  [i \in 1..Len(ds) |-> Add(p, ds[i])]

AdjList(E, p, ord) ==
    LET ds == SelectSeq(ord, LAMBDA d : make_edge(p, Add(p, d)) \in E)
    IN  [i \in 1..Len(ds) |-> Add(p, ds[i])]

BuildAdjMap(E, ord) == [p \in Corners(E) |-> AdjList(E, p, ord)]

(* adj[cur]: operator[] of the map, which default-constructs a missing entry *)
Lookup(m, p) == IF p \in DOMAIN m THEN m[p] ELSE <<>>

Touch(m, p) == IF p \in DOMAIN m THEN m ELSE m @@ (p :> <<>>)

(* mutant: the first candidate that is not prev, whether its edge is still
   in the edge set or not *)
FindNextIgnoreLive(E, nbs, c, p) ==
    LET other == SelectSeq(nbs, LAMBDA cand : cand # p)
    IN  IF other = <<>>
        THEN [found |-> FALSE, next |-> p]
        ELSE [found |-> TRUE, next |-> other[1]]

(* the scan of nbs: the first candidate that is not prev and whose edge
   is still in the edge set; next falls back to prev *)
FindNext(E, nbs, c, p) ==
    LET live == SelectSeq(nbs, LAMBDA cand : cand # p /\ make_edge(c, cand) \in E)
    IN  IF live = <<>>
        THEN [found |-> FALSE, next |-> p]
        ELSE [found |-> TRUE, next |-> live[1]]

----------------------------------------------------------------------------
(* LevelService::loop_has_solid_on_right.  The probe is the midpoint of the
   first edge of non-zero length moved a quarter cell along the right normal
   (-ey, ex); in quarter-cell units the midpoint is 2(a+b) and the offset is
   the normal itself, and the cell is the floor of a quarter of it.  For an
   edge that is not axis-aligned the normal's components lie strictly
   between -1 and 1 and the floor is that of their signs, so the signs give
   the probed cell for every edge.  cell_size * scale is taken to be at
   least 1e-4, so that no edge between two different corners is skipped by
   the len < 1e-4f test. *)

(* mutant: the probe is moved along the left normal *)
ProbeCellLeft(a, b) ==
    LET dx == b[1] - a[1]
        dy == b[2] - a[2]
    IN  << (2 * (a[1] + b[1]) + Sgn(dy)) \div 4,
           (2 * (a[2] + b[2]) - Sgn(dx)) \div 4 >>

ProbeCell(a, b) ==
    LET dx == b[1] - a[1]
        dy == b[2] - a[2]
    IN  << (2 * (a[1] + b[1]) - Sgn(dy)) \div 4,
           (2 * (a[2] + b[2]) + Sgn(dx)) \div 4 >>

RECURSIVE SolidOnRightFrom(_, _)
SolidOnRightFrom(loop_corners, i) ==
    LET n == Len(loop_corners)
    IN  IF i >= n
        THEN FALSE                          \* Fallback: if degenerate, say false
        ELSE LET a == loop_corners[i + 1]
                 b == loop_corners[((i + 1) % n) + 1]
             IN  IF a = b
                 THEN SolidOnRightFrom(loop_corners, i + 1)
                 ELSE LET g == ProbeCell(a, b) IN is_solid(g[1], g[2])

(* mutant: the degenerate fallback says true *)
SolidOnRightFallbackTrue(loop_corners) ==
    IF \A i \in 1..Len(loop_corners) : loop_corners[i] = loop_corners[1]
    THEN TRUE
    ELSE SolidOnRightFrom(loop_corners, 0)

loop_has_solid_on_right(loop_corners) == SolidOnRightFrom(loop_corners, 0)

----------------------------------------------------------------------------
(* The vertex reduction.  normal is the unit vector of a segment, {0, 0}
   for a segment of zero length; two unit vectors are equal exactly when
   the segments' components divided by their gcd are. *)

Normal(first, second) ==
    LET dx == second[1] - first[1]
        dy == second[2] - first[2]
        g  == GCD(Abs(dx), Abs(dy))
    IN  IF g = 0 THEN <<0, 0>> ELSE <<dx \div g, dy \div g>>

RECURSIVE ReduceFrom(_, _, _, _)
ReduceFrom(p, i, reduced, original_normal) ==
    IF i >= Len(p)
    THEN Append(reduced, p[Len(p)])         \* reduced.push_back(poly.back())
    ELSE LET first  == p[i]                 \* poly[i - 1]
             second == p[i + 1]             \* poly[i]
             normal == Normal(first, second)
             orig   == IF i = 1 THEN normal ELSE original_normal
         IN  IF normal # orig
             THEN ReduceFrom(p, i + 1, Append(reduced, first), normal)
             ELSE ReduceFrom(p, i + 1, reduced, orig)

(* mutant: the reduction without its final push of poly.back() *)
ReduceWithoutLast(p) ==
    LET r == ReduceFrom(p, 1, <<p[1]>>, <<0, 0>>) IN SubSeq(r, 1, Len(r) - 1)

(* mutant: the reduction without its initial push of poly[0] *)
ReduceWithoutFirst(p) == Tail(ReduceFrom(p, 1, <<p[1]>>, <<0, 0>>))

(* mutant: poly[0] is pushed twice *)
ReduceTwiceFirst(p) == <<p[1]>> \o ReduceFrom(p, 1, <<p[1]>>, <<0, 0>>)

Reduce(p) == ReduceFrom(p, 1, <<p[1]>>, <<0, 0>>)

(* mutant: the closing vertex is never popped *)
DropClosingNever(p) == p

(* if the last vertex equals the first, it is popped *)
DropClosing(p) ==
    IF p # <<>> /\ p[Len(p)] = p[1] THEN SubSeq(p, 1, Len(p) - 1) ELSE p

(* mutant: the loop is never reversed *)
WindNever(p) == p

(* mutant: the loop is always reversed *)
WindAlways(p) == Reverse(p)

(* the winding correction *)
Wind(p) == IF ~loop_has_solid_on_right(p) THEN Reverse(p) ELSE p

----------------------------------------------------------------------------
(* The Game after construction: no scenes, both pointers nullptr *)

Null == 0

NewGame ==
    /\ scenes = <<>>
    /\ scene_order = <<>>
    /\ iter = <<>>
    /\ current_scene = Null
    /\ next_scene = Null
    /\ scene_state = <<>>
    /\ op = <<"Game">>
    /\ ret = Null
    /\ calls = <<>>

(* the service before init: no body created, none recorded *)
NoBodies ==
    /\ service_class = "LevelService"
    /\ created = {}
    /\ layer_bodies = <<>>
    /\ destroy_calls = <<>>

(* ObjectPool(): no object *)
NoPool ==
    /\ objects = <<>>
    /\ got = 0
    /\ lent = {}
    /\ pool_op = <<"ObjectPool">>

----------------------------------------------------------------------------
(* The state machine of one layer's extraction *)

Init ==
    /\ \E g \in Grids : size = g.size /\ solid = g.solid
    /\ cap = PointCap
    /\ pc = "collect"
    /\ edges = {}
    /\ adj = <<>>
    /\ start = NoPoint
    /\ cur = NoPoint
    /\ prev = NoPoint
    /\ poly = <<>>
    /\ loops = <<>>
    /\ walked = <<>>
    /\ flipped = FALSE
    /\ discarded = {}
    /\ NewGame
    /\ NoBodies
    /\ NoPool

(* the double loop over the cells *)
Collect ==
    /\ pc = "collect"
    /\ edges' = CollectEdges
    /\ pc' = "adj"
    /\ UNCHANGED <<size, solid, cap, adj, start, cur, prev, poly, loops, walked, flipped, discarded>>
    /\ UNCHANGED <<gameVars, bodyVars, poolVars>>

(* for (auto& e : edges) { adj[e.a].push_back(e.b); adj[e.b].push_back(e.a); } *)
BuildAdj ==
    /\ pc = "adj"
    /\ \E ord \in DirOrders : adj' = BuildAdjMap(edges, ord)
    /\ pc' = "pick"
    /\ UNCHANGED <<size, solid, cap, edges, start, cur, prev, poly, loops, walked, flipped, discarded>>
    /\ UNCHANGED <<gameVars, bodyVars, poolVars>>

(* while (!edges.empty()): pick an arbitrary remaining edge *)
PickStart ==
    /\ pc = "pick"
    /\ edges # {}
    /\ \E startE \in edges :
          /\ start' = startE[1]
          /\ cur' = startE[2]
          /\ prev' = startE[1]
          /\ poly' = <<startE[1], startE[2]>>
          /\ edges' = erase_edge(edges, startE[1], startE[2])
    /\ pc' = "walk"
    /\ flipped' = FALSE
    /\ UNCHANGED <<size, solid, cap, adj, loops, walked, discarded>>
    /\ UNCHANGED <<gameVars, bodyVars, poolVars>>

(* mutant: the walk without its safety guard *)
WalkStepNoGuard ==
    /\ pc = "walk"
    /\ IF cur = start
       THEN /\ pc' = "post"
            /\ UNCHANGED <<edges, adj, cur, prev, poly>>
       ELSE LET r == FindNext(edges, Lookup(adj, cur), cur, prev)
            IN  /\ adj' = Touch(adj, cur)
                /\ IF ~r.found
                   THEN /\ pc' = "post"
                        /\ UNCHANGED <<edges, cur, prev, poly>>
                   ELSE /\ prev' = cur
                        /\ cur' = r.next
                        /\ poly' = Append(poly, r.next)
                        /\ edges' = erase_edge(edges, cur, r.next)
                        /\ pc' = "walk"
    /\ UNCHANGED <<size, solid, cap, start, loops, walked, flipped, discarded>>
    /\ UNCHANGED <<gameVars, bodyVars, poolVars>>

(* one test of while (!(cur == start)) and, when it passes, one body *)
WalkStep ==
    /\ pc = "walk"
    /\ IF cur = start
       THEN /\ pc' = "post"
            /\ UNCHANGED <<edges, adj, cur, prev, poly>>
       ELSE LET r == FindNext(edges, Lookup(adj, cur), cur, prev)
            IN  /\ adj' = Touch(adj, cur)
                /\ IF ~r.found
                   THEN /\ pc' = "post"
                        /\ UNCHANGED <<edges, cur, prev, poly>>
                   ELSE /\ prev' = cur
                        /\ cur' = r.next
                        /\ poly' = Append(poly, r.next)
                        /\ edges' = erase_edge(edges, cur, r.next)
                        /\ pc' = IF Len(poly) + 1 > cap THEN "post" ELSE "walk"
    /\ UNCHANGED <<size, solid, cap, start, loops, walked, flipped, discarded>>
    /\ UNCHANGED <<gameVars, bodyVars, poolVars>>

(* after the walk: drop the closing vertex, keep chains of 3 points or more,
   wind, reduce, loops.push_back *)
PostProcess ==
    /\ pc = "post"
    /\ LET p == DropClosing(poly)
       IN  IF Len(p) >= 3
           THEN /\ loops' = Append(loops, Reduce(Wind(p)))
                /\ walked' = Append(walked, Wind(p))
                /\ flipped' = ~loop_has_solid_on_right(p)
                /\ UNCHANGED discarded
           ELSE /\ discarded' = discarded \cup {p}
                /\ UNCHANGED <<loops, walked, flipped>>
    /\ pc' = "pick"
    /\ UNCHANGED <<size, solid, cap, edges, adj, start, cur, prev, poly>>
    /\ UNCHANGED <<gameVars, bodyVars, poolVars>>

(* the edge set is empty: the loops go to the chain builder *)
Finish ==
    /\ pc = "pick"
    /\ edges = {}
    /\ pc' = "done"
    /\ UNCHANGED <<size, solid, cap, edges, adj, start, cur, prev, poly, loops, walked, flipped, discarded>>
    /\ UNCHANGED <<gameVars, bodyVars, poolVars>>

Next == Collect \/ BuildAdj \/ PickStart \/ WalkStep \/ PostProcess \/ Finish

Spec == Init /\ [][Next]_vars

----------------------------------------------------------------------------
(* The extraction with the safety guard's 100000 as a parameter: cap is
   drawn from 1..MaxCap, the grid from a cell of 4 boundary edges, a pair of
   cells of 6, two cells touching at a corner (8 edges, one component) and
   two cells apart (two components of 4). *)

CapGrids ==
    { Grid(1, 1, {<<0, 0>>}),
      Grid(2, 1, {<<0, 0>>, <<1, 0>>}),
      Grid(2, 2, {<<0, 0>>, <<1, 1>>}),
      Grid(3, 1, {<<0, 0>>, <<2, 0>>}) }

CapInit ==
    /\ \E g \in CapGrids : size = g.size /\ solid = g.solid
    /\ cap \in 1..MaxCap
    /\ pc = "collect"
    /\ edges = {}
    /\ adj = <<>>
    /\ start = NoPoint
    /\ cur = NoPoint
    /\ prev = NoPoint
    /\ poly = <<>>
    /\ loops = <<>>
    /\ walked = <<>>
    /\ flipped = FALSE
    /\ discarded = {}
    /\ NewGame
    /\ NoBodies
    /\ NoPool

SpecCap == CapInit /\ [][Next]_vars

----------------------------------------------------------------------------
(* The post-processing of a walk on its own: the winding correction and the
   vertex reduction applied to point sequences the walker does not produce
   (repeated points, steps of several cells).  poly is drawn from the
   sequences of 3 to MaxPoly grid corners whose steps are axis-aligned or of
   zero length, the grid from the grids with at most one solid cell: the
   corrector reads one cell. *)

PolyInputs ==
    UNION { { p \in [1..n -> (0..GridW) \X (0..GridH)] :
                \A i \in 1..(n - 1) : p[i][1] = p[i + 1][1] \/ p[i][2] = p[i + 1][2] }
            : n \in 3..MaxPoly }

PostGrids ==
    { Grid(GridW, GridH, s) : s \in { t \in SUBSET Cells(GridW, GridH) : Cardinality(t) <= 1 } }

PostInit ==
    /\ \E g \in PostGrids : size = g.size /\ solid = g.solid
    /\ cap = PointCap
    /\ pc = "post"
    /\ edges = {}
    /\ adj = <<>>
    /\ poly \in PolyInputs
    /\ start = poly[1]
    /\ cur = poly[Len(poly)]
    /\ prev = poly[Len(poly) - 1]
    /\ loops = <<>>
    /\ walked = <<>>
    /\ flipped = FALSE
    /\ discarded = {}
    /\ NewGame
    /\ NoBodies
    /\ NoPool

PostNext == PostProcess

SpecPost == PostInit /\ [][PostNext]_vars

----------------------------------------------------------------------------
(* Game, Scene and Service.  A scene object is a number, its fields are in
   scene_state; a scene name is a number of 1..MaxScenes.  Every scene's
   init_services() adds the services of ServiceTypes and its scene has the
   game objects of SceneObjects, as the kit's sample scenes do. *)

Names == 1..MaxScenes

ServiceTypes == {"PhysicsService", "LevelService"}

SceneObjects == <<"CollectingCharacter", "Enemy">>

Perms(S) == { f \in [1..Cardinality(S) -> S] : \A i, j \in 1..Cardinality(S) : i # j => f[i] # f[j] }

(* std::find on a vector: the first position of x, 0 for end() *)
IndexOf(seq, x) ==
    IF \E i \in 1..Len(seq) : seq[i] = x
    THEN CHOOSE i \in 1..Len(seq) : seq[i] = x /\ \A j \in 1..(i - 1) : seq[j] # x
    ELSE 0

(* a Scene and a Service after construction *)
NewScene == [is_init |-> FALSE, inits |-> 0, services |-> <<>>]

NewService == [is_init |-> FALSE, inits |-> 0]

(* Service::init_service *)
init_service(sv) ==
    IF sv.is_init THEN sv ELSE [is_init |-> TRUE, inits |-> sv.inits + 1]

(* Scene::add_service for each service type: emplace keeps a service that
   is already there *)
init_services(sc) ==
    [t \in (DOMAIN sc.services) \cup ServiceTypes |->
        IF t \in DOMAIN sc.services THEN sc.services[t] ELSE NewService]

(* Scene::init_scene: the scene's fields afterwards *)
init_scene(sc) ==
    IF sc.is_init
    THEN sc
    ELSE LET added == init_services(sc)
         IN  [is_init  |-> TRUE,
              inits    |-> sc.inits + 1,
              services |-> [t \in DOMAIN added |-> init_service(added[t])]]

(* mutant: the scene's init() runs before its services are initialised *)
InitSceneCallsInitFirst(id, sc, ord) ==
    IF sc.is_init
    THEN <<>>
    ELSE <<<<"init", id>>, <<"init_services", id>>>>
         \o [i \in 1..Len(ord) |-> <<"service.init", id, ord[i]>>]
         \o [i \in 1..Len(SceneObjects) |-> <<"init_object", id, SceneObjects[i]>>]

(* Scene::init_scene: the calls it makes, ord being the iteration order of
   the hash map services *)
init_scene_calls(id, sc, ord) ==
    IF sc.is_init
    THEN <<>>
    ELSE LET added == init_services(sc)
             Runs(t) == init_service(added[t]).inits > added[t].inits
             run == SelectSeq(ord, Runs)
         IN  <<<<"init_services", id>>>>
             \o [i \in 1..Len(run) |-> <<"service.init", id, run[i]>>]
             \o <<<<"init", id>>>>
             \o [i \in 1..Len(SceneObjects) |-> <<"init_object", id, SceneObjects[i]>>]

(* mutant: on_enter of the new scene before on_exit of the old one *)
SwitchCallsEnterFirst(old, new) ==
    <<<<"on_enter", new>>>> \o (IF old # Null THEN <<<<"on_exit", old>>>> ELSE <<>>)

(* Game::update, the switch: on_exit of the current scene, on_enter of the next *)
switch_calls(old, new) ==
    (IF old # Null THEN <<<<"on_exit", old>>>> ELSE <<>>) \o <<<<"on_enter", new>>>>

(* the positions of current_scene in the iteration order of scenes *)
Found == { j \in 1..Len(iter) : scenes[iter[j]] = current_scene }

(* mutant: no loop back to the first scene *)
GoToSceneNextNoWrap ==
    IF current_scene = Null \/ Found = {}
    THEN next_scene
    ELSE LET name == iter[CHOOSE j \in Found : \A k \in Found : j <= k]
             i    == IndexOf(scene_order, name)
         IN  IF i # 0 /\ i + 1 <= Len(scene_order)
             THEN scenes[scene_order[i + 1]]
             ELSE next_scene

(* Game::go_to_scene_next: the value of next_scene afterwards *)
go_to_scene_next ==
    IF current_scene = Null \/ Found = {}
    THEN next_scene
    ELSE LET name == iter[CHOOSE j \in Found : \A k \in Found : j <= k]
             i    == IndexOf(scene_order, name)
         IN  IF i # 0 /\ i + 1 <= Len(scene_order)
             THEN scenes[scene_order[i + 1]]
             ELSE scenes[scene_order[1]]

(* Game::go_to_scene_previous: the value of next_scene afterwards.  The
   backward search stops on current_scene or on begin(); the test
   it != scenes.begin() then fails when current_scene is at begin(). *)
go_to_scene_previous ==
    IF current_scene = Null
    THEN next_scene
    ELSE LET it == IF Found = {} THEN 1 ELSE CHOOSE j \in Found : \A k \in Found : j >= k
         IN  IF iter = <<>> \/ it = 1
             THEN next_scene
             ELSE LET name == iter[it]
                      i    == IndexOf(scene_order, name)
                  IN  IF i # 0 /\ i # 1
                      THEN scenes[scene_order[i - 1]]
                      ELSE scenes[scene_order[Len(scene_order)]]

(* no level is being extracted *)
NoLevel ==
    /\ size = <<1, 1>>
    /\ solid = {}
    /\ cap = PointCap
    /\ pc = "done"
    /\ edges = {}
    /\ adj = <<>>
    /\ start = NoPoint
    /\ cur = NoPoint
    /\ prev = NoPoint
    /\ poly = <<>>
    /\ loops = <<>>
    /\ walked = <<>>
    /\ flipped = FALSE
    /\ discarded = {}

GameInit == NoLevel /\ NewGame /\ NoBodies /\ NoPool

(* the scenes the map scenes owns *)
Held == { scenes[n] : n \in DOMAIN scenes }

(* the program has not stopped *)
Running == op # <<"crash">>

(* Game::add_scene(name, scene): the new scene is allocated while every
   scene of the map is alive, so at a place none of them has, one never
   used or that of a scene destroyed before; scenes[name] = std::move(scene)
   destroys the scene the name had *)
add_scene(name) ==
    \E id \in (1..(Len(scene_state) + 1)) \ Held :
        /\ scenes' = (name :> id) @@ scenes
        /\ scene_state' = IF id > Len(scene_state)
                          THEN Append(scene_state, NewScene)
                          ELSE [scene_state EXCEPT ![id] = NewScene]
        /\ scene_order' = Append(scene_order, name)
        /\ IF name \in DOMAIN scenes
           THEN iter' = iter
           ELSE iter' \in Perms(DOMAIN scenes \cup {name})
        /\ current_scene' = IF current_scene = Null THEN id ELSE current_scene
        /\ op' = <<"add_scene", name>>
        /\ calls' = <<>>
        /\ UNCHANGED <<next_scene, ret>>

(* the scenes are added under names not yet in use *)
AddScene ==
    /\ Running
    /\ \E name \in Names \ DOMAIN scenes : add_scene(name)
    /\ UNCHANGED <<extractorVars, bodyVars, poolVars>>

(* Game::go_to_scene(name), name registered or not *)
GoToScene ==
    /\ Running
    /\ \E name \in Names :
          /\ next_scene' = IF name \in DOMAIN scenes THEN scenes[name] ELSE next_scene
          /\ op' = <<"go_to_scene", name>>
    /\ ret' = next_scene'
    /\ calls' = <<>>
    /\ UNCHANGED <<scenes, scene_order, iter, current_scene, scene_state>>
    /\ UNCHANGED <<extractorVars, bodyVars, poolVars>>

GoToSceneNext ==
    /\ Running
    /\ next_scene' = go_to_scene_next
    /\ ret' = next_scene'
    /\ op' = <<"go_to_scene_next">>
    /\ calls' = <<>>
    /\ UNCHANGED <<scenes, scene_order, iter, current_scene, scene_state>>
    /\ UNCHANGED <<extractorVars, bodyVars, poolVars>>

GoToScenePrevious ==
    /\ Running
    /\ next_scene' = go_to_scene_previous
    /\ ret' = next_scene'
    /\ op' = <<"go_to_scene_previous">>
    /\ calls' = <<>>
    /\ UNCHANGED <<scenes, scene_order, iter, current_scene, scene_state>>
    /\ UNCHANGED <<extractorVars, bodyVars, poolVars>>

(* Game::update(delta_time) *)
Update ==
    /\ Running
    /\ \E ord \in Perms(ServiceTypes) :
          LET c == current_scene
              frame == IF c = Null
                       THEN <<>>
                       ELSE init_scene_calls(c, scene_state[c], ord)
                            \o <<<<"update_scene", c>>, <<"draw_scene", c>>>>
          IN  /\ scene_state' = IF c = Null
                                THEN scene_state
                                ELSE [scene_state EXCEPT ![c] = init_scene(@)]
              /\ IF next_scene # Null
                 THEN /\ calls' = frame \o switch_calls(c, next_scene)
                      /\ current_scene' = next_scene
                      /\ next_scene' = Null
                 ELSE /\ calls' = frame
                      /\ UNCHANGED <<current_scene, next_scene>>
    /\ op' = <<"update">>
    /\ UNCHANGED <<scenes, scene_order, iter, ret>>
    /\ UNCHANGED <<extractorVars, bodyVars, poolVars>>

GameNext == AddScene \/ GoToScene \/ GoToSceneNext \/ GoToScenePrevious \/ Update

SpecGame == GameInit /\ [][GameNext]_vars

(* Game::add_scene under a name already in use, at most MaxAdds calls of
   add_scene in all *)
AddSceneAgain ==
    /\ Running
    /\ Len(scene_order) < MaxAdds
    /\ \E name \in DOMAIN scenes : add_scene(name)
    /\ UNCHANGED <<extractorVars, bodyVars, poolVars>>

(* the pointers Game::update calls through *)
Freed == { p \in {current_scene, next_scene} : p # Null /\ p \notin Held }

(* Game::update calling through a pointer to a destroyed scene: the
   behaviour is undefined.  Either the call runs on what the destroyed
   scene left in memory, which is Update, or the program stops here. *)
UpdateFreed ==
    /\ Running
    /\ Freed # {}
    /\ op' = <<"crash">>
    /\ calls' = <<>>
    /\ UNCHANGED <<scenes, scene_order, iter, current_scene, next_scene, scene_state, ret>>
    /\ UNCHANGED <<extractorVars, bodyVars, poolVars>>

OwnedNext ==
    AddScene \/ AddSceneAgain \/ GoToScene \/ GoToSceneNext \/ GoToScenePrevious
    \/ Update \/ UpdateFreed

SpecOwned == GameInit /\ [][OwnedNext]_vars

----------------------------------------------------------------------------
(* One tileset layer from the extraction to the service's destructor: the
   layer's static body is created once the loops are there, one chain is
   made per loop, and the destructor goes through layer_bodies.  The
   service is a LevelService or an LDtkService, which differ in the
   destructor. *)

LevelGrids == CapGrids \cup { Grid(1, 1, {}) }

LevelInit ==
    /\ \E g \in LevelGrids : size = g.size /\ solid = g.solid
    /\ cap = PointCap
    /\ pc = "collect"
    /\ edges = {}
    /\ adj = <<>>
    /\ start = NoPoint
    /\ cur = NoPoint
    /\ prev = NoPoint
    /\ poly = <<>>
    /\ loops = <<>>
    /\ walked = <<>>
    /\ flipped = FALSE
    /\ discarded = {}
    /\ NewGame
    /\ service_class \in {"LevelService", "LDtkService"}
    /\ created = {}
    /\ layer_bodies = <<>>
    /\ destroy_calls = <<>>
    /\ NoPool

(* the number of entries of layer_bodies that are body *)
Recorded(body) == Cardinality({ i \in 1..Len(layer_bodies) : layer_bodies[i] = body })

(* b2CreateBody, then for each loop b2CreateChain and
   layer_bodies.push_back(layer_body) *)
CreateBody ==
    /\ pc = "done"
    /\ LET layer_body == Cardinality(created) + 1
       IN  /\ created' = created \cup {layer_body}
           /\ layer_bodies' = layer_bodies \o [i \in 1..Len(loops) |-> layer_body]
           /\ destroy_calls' = [b \in created \cup {layer_body} |-> 0]
    /\ pc' = "built"
    /\ UNCHANGED <<size, solid, cap, edges, adj, start, cur, prev, poly, loops, walked, flipped, discarded>>
    /\ UNCHANGED <<service_class, gameVars, poolVars>>

(* the destructor's loop over layer_bodies: ~LevelService destroys a body
   that is still valid, ~LDtkService every entry *)
Destructor ==
    /\ pc = "built"
    /\ destroy_calls' =
          [b \in created |->
              IF service_class = "LevelService"
              THEN IF Recorded(b) > 0 THEN 1 ELSE 0
              ELSE Recorded(b)]
    /\ pc' = "destroyed"
    /\ UNCHANGED <<size, solid, cap, edges, adj, start, cur, prev, poly, loops, walked, flipped, discarded>>
    /\ UNCHANGED <<service_class, created, layer_bodies, gameVars, poolVars>>

LevelNext ==
    Collect \/ BuildAdj \/ PickStart \/ WalkStep \/ PostProcess \/ Finish
    \/ CreateBody \/ Destructor

SpecLevel == LevelInit /\ [][LevelNext]_vars

----------------------------------------------------------------------------
(* ObjectPool<T>: the pooled objects are numbered in the order of the
   vector objects; T is a GameObject, whose is_active is true after
   construction.  The pool is constructed with 0 to MaxPool objects and
   grows to MaxPool objects at most. *)

(* ObjectPool(initial_size): initial_size times make_shared<T>(), a
   GameObject being constructed with is_active = true *)
PoolInit ==
    /\ NoLevel
    /\ NewGame
    /\ NoBodies
    /\ \E initial_size \in 0..MaxPool : objects = [i \in 1..initial_size |-> TRUE]
    /\ got = 0
    /\ lent = {}
    /\ pool_op = <<"ObjectPool">>

(* mutant: the first pooled object, active or not *)
FirstPooled(objs) == IF objs = <<>> THEN 0 ELSE 1

(* the scan of get_object: the position of the first pooled object that is
   not active, 0 for none *)
first_inactive(objs) ==
    IF \E i \in 1..Len(objs) : ~objs[i]
    THEN CHOOSE i \in 1..Len(objs) : ~objs[i] /\ \A j \in 1..(i - 1) : objs[j]
    ELSE 0

(* ObjectPool::get_object *)
GetObject ==
    /\ LET i == first_inactive(objects)
       IN  IF i # 0
           THEN /\ objects' = [objects EXCEPT ![i] = TRUE]
                /\ got' = i
           ELSE /\ Len(objects) < MaxPool
                /\ objects' = Append(objects, TRUE)
                /\ got' = Len(objects) + 1
    /\ lent' = lent \cup {got'}
    /\ pool_op' = <<"get_object">>
    /\ UNCHANGED <<extractorVars, gameVars, bodyVars>>

(* ObjectPool::return_object(obj), obj one of the pooled objects *)
ReturnObject ==
    /\ \E obj \in 1..Len(objects) :
          /\ objects' = [objects EXCEPT ![obj] = FALSE]
          /\ lent' = lent \ {obj}
          /\ pool_op' = <<"return_object", obj>>
    /\ UNCHANGED got
    /\ UNCHANGED <<extractorVars, gameVars, bodyVars>>

PoolNext == GetObject \/ ReturnObject

SpecPool == PoolInit /\ [][PoolNext]_vars

----------------------------------------------------------------------------
(* Vocabulary of the properties *)

IsGrid(g) == size = g.size /\ solid = g.solid

NoSolidOnBorder ==
    \A c \in solid : /\ 0 < c[1] /\ c[1] < size[1] - 1
                     /\ 0 < c[2] /\ c[2] < size[2] - 1

(* the successor of index i in a closed sequence of n points *)
Succ(i, n) == (i % n) + 1

(* the consecutive pairs of a closed sequence, the pair (last, first) included *)
Pairs(p) == { <<p[i], p[Succ(i, Len(p))]>> : i \in 1..Len(p) }

Dist(a, b) == Abs(b[1] - a[1]) + Abs(b[2] - a[2])

AxisAligned(a, b) == (a[1] = b[1]) # (a[2] = b[2])

(* the places (loop k, index i) where a walked loop runs along edge e *)
Uses(e) ==
    { ki \in UNION { {k} \X (1..Len(walked[k])) : k \in 1..Len(walked) } :
        make_edge(walked[ki[1]][ki[2]],
                  walked[ki[1]][Succ(ki[2], Len(walked[ki[1]]))]) = e }

(* the directed unit edges a closed polyline runs along *)
UnitSteps(p) ==
    UNION { LET a == pr[1]
                d == Normal(pr[1], pr[2])
                g == GCD(Abs(pr[2][1] - a[1]), Abs(pr[2][2] - a[2]))
            IN  { << <<a[1] + t * d[1], a[2] + t * d[2]>>,
                     <<a[1] + (t + 1) * d[1], a[2] + (t + 1) * d[2]>> >>
                  : t \in 0..(g - 1) }
            : pr \in Pairs(p) }

UndirectedSteps(p) == { make_edge(u[1], u[2]) : u \in UnitSteps(p) }

(* the unit grid edges with a solid cell on exactly one side *)
Lattice == (0..size[1]) \X (0..size[2])

SeparatingEdges ==
    { <<a, Add(a, <<1, 0>>)>> : a \in { q \in Lattice :
          is_solid(q[1], q[2] - 1) # is_solid(q[1], q[2]) } }
    \cup
    { <<a, Add(a, <<0, 1>>)>> : a \in { q \in Lattice :
          is_solid(q[1] - 1, q[2]) # is_solid(q[1], q[2]) } }

RECURSIVE AreaFrom(_, _)
AreaFrom(p, i) ==
    IF i > Len(p) THEN 0
    ELSE LET a == p[i]
             b == p[Succ(i, Len(p))]
         IN  a[1] * b[2] - b[1] * a[2] + AreaFrom(p, i + 1)

(* twice the signed area of a closed polyline *)
SignedArea2(p) == AreaFrom(p, 1)

----------------------------------------------------------------------------
(* C1: when the extraction of a grid with no solid cell on its border has
   finished, the edge set is empty, no walked sequence was discarded, and
   every boundary edge the collector produced is run along by exactly one
   emitted walked loop, exactly once. *)
EdgeConsumption ==
    (pc = "done" /\ NoSolidOnBorder) =>
        /\ edges = {}
        /\ discarded = {}
        /\ \A e \in CollectEdges : Cardinality(Uses(e)) = 1

EdgeConsumptionWitness ==
    /\ pc = "done"
    /\ NoSolidOnBorder
    /\ Len(walked) >= 2
    /\ Cardinality(CollectEdges) >= 8

(* C2: after the winding correction every unit edge of every emitted loop,
   the closing edge included, has a solid cell a quarter cell to its right
   and a non-solid or out-of-bounds cell a quarter cell to its left. *)
WindingInvariant ==
    pc = "done" =>
        \A k \in 1..Len(loops) : \A u \in UnitSteps(loops[k]) :
            LET r == ProbeCell(u[1], u[2])
                l == ProbeCell(u[2], u[1])
            IN  is_solid(r[1], r[2]) /\ ~is_solid(l[1], l[2])

(* C3 as claimed: in every emitted loop of 3 points or more, consecutive
   points, last and first included, are axis-aligned and exactly one grid
   unit apart. *)
ClosedLoopUnit ==
    \A k \in 1..Len(loops) : Len(loops[k]) >= 3 =>
        \A pr \in Pairs(loops[k]) : AxisAligned(pr[1], pr[2]) /\ Dist(pr[1], pr[2]) = 1

(* C3 as amended: in every emitted loop of 3 points or more, consecutive
   points, last and first included, are axis-aligned and at least one grid
   unit apart; they are exactly one unit apart in the walked loop it was
   reduced from. *)
ClosedLoopAxisAligned ==
    \A k \in 1..Len(loops) : Len(loops[k]) >= 3 =>
        /\ \A pr \in Pairs(loops[k]) : AxisAligned(pr[1], pr[2]) /\ Dist(pr[1], pr[2]) >= 1
        /\ \A pr \in Pairs(walked[k]) : AxisAligned(pr[1], pr[2]) /\ Dist(pr[1], pr[2]) = 1

ClosedLoopWitness ==
    /\ pc = "done"
    /\ \E k \in 1..Len(loops) : /\ Len(loops[k]) >= 3
                                /\ \E pr \in Pairs(loops[k]) : Dist(pr[1], pr[2]) >= 2

(* C4: the walker terminates.  Rank is a natural number, positive until
   the extraction has ended, and every step of the extraction lowers it:
   a step of a walk consumes an edge or ends the walk, a pass of the outer
   loop consumes its start edge, so no run takes more steps than its first
   Rank.  The step that ends the outer loop leaves the edge set empty. *)
Rank ==
    CASE pc = "collect" -> 3 * Cardinality(CollectEdges) + 6
      [] pc = "adj"     -> 3 * Cardinality(edges) + 5
      [] pc = "walk"    -> 3 * Cardinality(edges) + 4
      [] pc = "post"    -> 3 * Cardinality(edges) + 3
      [] pc = "pick"    -> 3 * Cardinality(edges) + 2
      [] OTHER          -> 0

TerminationStep ==
    /\ Rank \in Nat
    /\ Rank' \in Nat
    /\ Rank' < Rank
    /\ (Rank' = 0) = (pc' = "done")
    /\ pc' = "done" => edges' = {}

Termination == [][TerminationStep]_vars

TerminationWitness ==
    /\ pc = "done"
    /\ Len(loops) >= 2
    /\ \E k \in 1..Len(walked) : Len(walked[k]) >= 8

(* C5: the edge set built before walking is exactly the set of unit grid
   edges that separate a solid cell from a non-solid or out-of-bounds one,
   each stored with its endpoints in lexicographic order; make_edge gives
   the same edge for both orders of its arguments. *)
EdgeCollector ==
    pc = "adj" =>
        /\ edges = SeparatingEdges
        /\ \A e \in edges : make_edge(e[1], e[2]) = e /\ make_edge(e[2], e[1]) = e
        /\ \A a, b \in Lattice : make_edge(a, b) = make_edge(b, a)

EdgeCollectorWitness ==
    /\ pc = "adj"
    /\ IsGrid(DonutGrid)
    /\ Cardinality(edges) = 24

(* C6: for the 3x3 block, extraction yields exactly one loop, and the
   reduced loop has exactly 4 points, the four corners of the block. *)
RectCorners == {<<1, 1>>, <<4, 1>>, <<4, 4>>, <<1, 4>>}

SingleRectangle ==
    (pc = "done" /\ IsGrid(RectGrid)) =>
        /\ Len(loops) = 1
        /\ Len(loops[1]) = 4
        /\ { loops[1][i] : i \in 1..Len(loops[1]) } = RectCorners

(* C7: for the donut, extraction yields exactly two loops, one running
   along the outer boundary and one along the boundary of the hole, and
   their signed areas have opposite signs. *)
DonutOuterEdges ==
    { e \in SeparatingEdges : \E i \in 1..2 : e[1][i] = e[2][i] /\ e[1][i] \in {0, 5} }

DonutHoleEdges == SeparatingEdges \ DonutOuterEdges

DonutLoops ==
    (pc = "done" /\ IsGrid(DonutGrid)) =>
        /\ Len(loops) = 2
        /\ \E o, h \in 1..2 :
              /\ o # h
              /\ UndirectedSteps(loops[o]) = DonutOuterEdges
              /\ UndirectedSteps(loops[h]) = DonutHoleEdges
        /\ SignedArea2(loops[1]) * SignedArea2(loops[2]) < 0

DonutLoopsWitness ==
    /\ pc = "done"
    /\ IsGrid(DonutGrid)
    /\ Len(loops) = 2
    /\ Cardinality(DonutOuterEdges) = 20
    /\ Cardinality(DonutHoleEdges) = 4

(* C8: for the donut, the emitted outer loop has exactly 4 points and the
   emitted inner loop has exactly 4 points. *)
DonutVertexCounts ==
    (pc = "done" /\ IsGrid(DonutGrid)) =>
        \A k \in 1..Len(loops) : Len(loops[k]) = 4

(* C9: for the two 2x2 blocks, extraction yields exactly two loops, each
   running along the boundary of one block only, and each has exactly 4
   points. *)
LeftBlockEdges == { e \in SeparatingEdges : e[2][1] <= 3 }

RightBlockEdges == SeparatingEdges \ LeftBlockEdges

DisjointRegions ==
    (pc = "done" /\ IsGrid(TwoBlocksGrid)) =>
        /\ Len(loops) = 2
        /\ \E a, b \in 1..2 :
              /\ a # b
              /\ UndirectedSteps(loops[a]) = LeftBlockEdges
              /\ UndirectedSteps(loops[b]) = RightBlockEdges
        /\ \A k \in 1..Len(loops) : Len(loops[k]) = 4

(* C10: for a grid of any size with no solid cell, widths and heights of 0
   included, the edge set is empty, the body of the walker's outer loop is
   never entered, and extraction yields zero loops. *)
EmptyGrid ==
    solid = {} =>
        /\ edges = {}
        /\ pc \notin {"walk", "post"}
        /\ loops = <<>>
        /\ poly = <<>>

EmptyGridWitness ==
    /\ pc = "done"
    /\ solid = {}
    /\ size[1] > 0
    /\ size[2] > 0

----------------------------------------------------------------------------
(* C11: in a grid with a solid cell on its border, the sides of the solid
   cells that lie on the border are boundary edges (a cell outside the grid
   counts as not solid), every walk ends at its start point with its last
   point equal to its first, no walk is dropped as an open chain, and the
   border edges are covered by the emitted closed loops. *)

SolidOnBorder ==
    \E c \in solid :
        c[1] = 0 \/ c[2] = 0 \/ c[1] = size[1] - 1 \/ c[2] = size[2] - 1

BorderEdges ==
    { <<c, <<c[1], c[2] + 1>>>> : c \in { d \in solid : d[1] = 0 } }
    \cup { <<c, <<c[1] + 1, c[2]>>>> : c \in { d \in solid : d[2] = 0 } }
    \cup { <<<<c[1] + 1, c[2]>>, <<c[1] + 1, c[2] + 1>>>> :
             c \in { d \in solid : d[1] = size[1] - 1 } }
    \cup { <<<<c[1], c[2] + 1>>, <<c[1] + 1, c[2] + 1>>>> :
             c \in { d \in solid : d[2] = size[2] - 1 } }

----------------------------------------------------------------------------
(* C12: the vertex reduction is idempotent: applied to a reduced loop, for
   every input of at least 3 points with axis-aligned steps, it returns the
   reduced loop. *)

ReductionIdempotent ==
    \A k \in 1..Len(loops) : Reduce(loops[k]) = loops[k]

(* a reduced loop that is shorter than the sequence it was reduced from *)
ReductionIdempotentWitness ==
    /\ pc = "pick"
    /\ Len(loops) = 1
    /\ Len(loops[1]) >= 3
    /\ Len(loops[1]) < Len(walked[1])

----------------------------------------------------------------------------
(* C13: in every emitted loop each point is a change of direction: the
   direction from its cyclic predecessor differs from the direction to its
   cyclic successor. *)

Pred(i, n) == ((i + n - 2) % n) + 1

DirectionChangesOnly ==
    \A k \in 1..Len(loops) :
        LET r == loops[k]
            n == Len(r)
        IN  \A i \in 1..n :
                Normal(r[Pred(i, n)], r[i]) # Normal(r[i], r[Succ(i, n)])

----------------------------------------------------------------------------
(* C14: every emitted loop is a subsequence of its walked loop, in order,
   that begins with the walked loop's first point and ends with its last,
   has no point twice in a row, and as a closed polyline covers the same
   unit edges as the walked loop. *)

RECURSIVE SubseqFrom(_, _, _, _)
SubseqFrom(r, w, i, j) ==
    IF i > Len(r) THEN TRUE
    ELSE IF j > Len(w) THEN FALSE
    ELSE IF r[i] = w[j] THEN SubseqFrom(r, w, i + 1, j + 1)
    ELSE SubseqFrom(r, w, i, j + 1)

ShapePreserved ==
    /\ Len(loops) = Len(walked)
    /\ \A k \in 1..Len(loops) :
          LET r == loops[k]
              w == walked[k]
          IN  /\ SubseqFrom(r, w, 1, 1)
              /\ r[1] = w[1]
              /\ r[Len(r)] = w[Len(w)]
              /\ \A i \in 1..(Len(r) - 1) : r[i] # r[i + 1]
              /\ UndirectedSteps(r) = UndirectedSteps(w)

ShapePreservedWitness ==
    /\ pc = "done"
    /\ \E k \in 1..Len(loops) : Len(loops[k]) < Len(walked[k])

----------------------------------------------------------------------------
(* C15: for a walked loop of at least 3 points the winding correction looks
   at the first edge of non-zero length alone: the loop is reversed exactly
   when the cell on the right of that edge is not solid, and in the emitted
   orientation that edge has a solid cell on its right. *)

(* the cell on the right of the unit edge from a to b, y growing downwards *)
RightCell(a, b) ==
    IF b[1] > a[1] THEN <<a[1], a[2]>>
    ELSE IF b[1] < a[1] THEN <<b[1], a[2] - 1>>
    ELSE IF b[2] > a[2] THEN <<a[1] - 1, a[2]>>
    ELSE <<a[1], b[2]>>

FirstEdge(p) ==
    LET I == { i \in 1..Len(p) : p[i] # p[Succ(i, Len(p))] }
    IN  CHOOSE i \in I : \A j \in I : i <= j

SingleEdgeWinding ==
    (pc = "pick" /\ Len(DropClosing(poly)) >= 3) =>
        LET p   == DropClosing(poly)
            i   == FirstEdge(p)
            a   == p[i]
            b   == p[Succ(i, Len(p))]
            out == walked[Len(walked)]
        IN  /\ flipped = (RightCell(a, b) \notin solid)
            /\ out = IF flipped THEN Reverse(p) ELSE p
            /\ IF flipped
               THEN <<b, a>> \in Pairs(out) /\ RightCell(b, a) \in solid
               ELSE <<a, b>> \in Pairs(out) /\ RightCell(a, b) \in solid

SingleEdgeWindingWitness ==
    /\ pc = "pick"
    /\ Len(DropClosing(poly)) >= 3
    /\ flipped

----------------------------------------------------------------------------
(* C16: a loop of at least 3 points whose edges all have zero length is not
   reversed by the winding correction and is passed on in its order. *)

Degenerate(p) == \A i \in 1..Len(p) : p[i] = p[1]

----------------------------------------------------------------------------
(* C17: a scene transition is deferred.  go_to_scene with a registered name
   sets next_scene, makes no call on a scene and leaves current_scene as it
   is; current_scene changes only at the end of an update (or when the first
   scene is added).  An update with a pending next_scene initialises,
   updates and draws the old current scene, then calls on_exit of the old
   scene and on_enter of the new one, once each and in that order, makes the
   new scene current and clears next_scene; an update with no pending
   next_scene calls neither on_exit nor on_enter. *)

Switches(log) == { i \in 1..Len(log) : log[i][1] \in {"on_exit", "on_enter"} }

DeferredStep ==
    /\ (op'[1] = "go_to_scene" /\ op'[2] \in DOMAIN scenes) =>
          /\ next_scene' = scenes[op'[2]]
          /\ current_scene' = current_scene
          /\ calls' = <<>>
    /\ current_scene' # current_scene =>
          \/ op'[1] = "update"
          \/ op'[1] = "add_scene" /\ current_scene = Null
    /\ (op'[1] = "update" /\ next_scene # Null) =>
          LET old == current_scene
              n   == Len(calls')
          IN  /\ current_scene' = next_scene
              /\ next_scene' = Null
              /\ calls'[n] = <<"on_enter", next_scene>>
              /\ old = Null => Switches(calls') = {n}
              /\ old # Null =>
                    /\ scene_state'[old].is_init
                    /\ n >= 4
                    /\ calls'[n - 3] = <<"update_scene", old>>
                    /\ calls'[n - 2] = <<"draw_scene", old>>
                    /\ calls'[n - 1] = <<"on_exit", old>>
                    /\ Switches(calls') = {n - 1, n}
    /\ (op'[1] = "update" /\ next_scene = Null) =>
          /\ current_scene' = current_scene
          /\ next_scene' = Null
          /\ Switches(calls') = {}

DeferredTransition == [][DeferredStep]_vars

(* an update has just switched from one scene to another *)
DeferredTransitionWitness ==
    /\ op = <<"update">>
    /\ Len(calls) >= 4
    /\ calls[Len(calls)] = <<"on_enter", current_scene>>
    /\ calls[Len(calls) - 1][1] = "on_exit"
    /\ calls[Len(calls) - 1][2] # current_scene
    /\ next_scene = Null

----------------------------------------------------------------------------
(* C18: after go_to_scene_next, next_scene is the scene whose name follows
   the current scene's name in scene_order, the first added scene when
   the current scene is the last one, and it is the value returned. *)

NameOf(id) == CHOOSE n \in DOMAIN scenes : scenes[n] = id

GoToSceneNextFollows ==
    (op = <<"go_to_scene_next">> /\ current_scene # Null) =>
        LET i == IndexOf(scene_order, NameOf(current_scene))
        IN  /\ i # 0
            /\ next_scene = scenes[scene_order[(i % Len(scene_order)) + 1]]
            /\ ret = next_scene

(* the loop back from the last of three scenes, the hash map iterating in
   another order than scene_order *)
GoToSceneNextWitness ==
    /\ op = <<"go_to_scene_next">>
    /\ Len(scene_order) = 3
    /\ iter # scene_order
    /\ current_scene = scenes[scene_order[3]]
    /\ next_scene = scenes[scene_order[1]]

----------------------------------------------------------------------------
(* C19: after go_to_scene_previous, next_scene is the scene whose name
   precedes the current scene's name in scene_order, the last added scene
   when the current scene is the first one, and it is the value returned,
   whatever the iteration order of the hash map. *)

GoToScenePreviousPrecedes ==
    (op = <<"go_to_scene_previous">> /\ current_scene # Null) =>
        LET i == IndexOf(scene_order, NameOf(current_scene))
            n == Len(scene_order)
        IN  /\ i # 0
            /\ next_scene = scenes[scene_order[((i + n - 2) % n) + 1]]
            /\ ret = next_scene

----------------------------------------------------------------------------
(* C20: in init_scene the call of init_services() and the init() of every
   service of the scene come before the scene's init() and before every
   init_object(); the init() of a scene and of a service runs at most once;
   a scene whose update_scene is called is initialised, its init() having
   come first. *)

InitOnceInOrder ==
    /\ \A id \in 1..Len(scene_state) :
          /\ scene_state[id].inits <= 1
          /\ \A t \in DOMAIN scene_state[id].services :
                scene_state[id].services[t].inits <= 1
    /\ \A i \in 1..Len(calls) :
          LET id == calls[i][2]
          IN  /\ calls[i][1] \in {"init", "init_object"} =>
                    /\ \E j \in 1..(i - 1) : calls[j] = <<"init_services", id>>
                    /\ \A t \in DOMAIN scene_state[id].services :
                          \E j \in 1..(i - 1) : calls[j] = <<"service.init", id, t>>
                    /\ \A j \in 1..Len(calls) :
                          calls[j][1] \in {"init_services", "service.init"} => j < i
              /\ calls[i][1] = "init_object" =>
                    \E j \in 1..(i - 1) : calls[j] = <<"init", id>>
              /\ calls[i][1] = "update_scene" =>
                    /\ scene_state[id].is_init
                    /\ scene_state[id].inits = 1
                    /\ \A t \in DOMAIN scene_state[id].services :
                          /\ scene_state[id].services[t].is_init
                          /\ scene_state[id].services[t].inits = 1
                    /\ \A j \in 1..Len(calls) :
                          calls[j][1] \in {"init", "init_object", "service.init"} => j < i

(* a second scene is initialised, and the first one, initialised before, is
   current again and has been updated a second time *)
InitOnceInOrderWitness ==
    /\ op = <<"update">>
    /\ Len(scene_state) >= 2
    /\ \A id \in 1..2 : scene_state[id].is_init
    /\ calls = <<<<"update_scene", 1>>, <<"draw_scene", 1>>>>

----------------------------------------------------------------------------
(* C22: no walked loop holds the same grid corner twice. *)

Simple(p) == \A i, j \in 1..Len(p) : i # j => p[i] # p[j]

SimpleLoops == \A k \in 1..Len(walked) : Simple(walked[k])

----------------------------------------------------------------------------
(* The boundary-edge graph: corners as vertices, the boundary edges of the
   grid as edges; two edges are in one component when a chain of edges with
   shared corners links them. *)

Touching(e, f) == {e[1], e[2]} \cap {f[1], f[2]} # {}

RECURSIVE Closure(_, _)
Closure(S, E) ==
    LET T == S \cup { f \in E : \E e \in S : Touching(e, f) }
    IN  IF T = S THEN S ELSE Closure(T, E)

Components == { Closure({e}, SeparatingEdges) : e \in SeparatingEdges }

(* a corner at which four boundary edges end: of the four cells around it
   two diagonal ones are solid and the other two are not *)
PinchCorners ==
    { q \in Lattice :
        /\ (<<q[1] - 1, q[2] - 1>> \in solid) = (<<q[1], q[2]>> \in solid)
        /\ (<<q[1] - 1, q[2]>> \in solid) = (<<q[1], q[2] - 1>> \in solid)
        /\ (<<q[1], q[2]>> \in solid) # (<<q[1] - 1, q[2]>> \in solid) }

(* C23: when the extraction has finished there are as many emitted loops as
   components of the boundary-edge graph, and the edges of each emitted
   loop are the edges of one component. *)
OneLoopPerComponent ==
    pc = "done" =>
        /\ Len(loops) = Cardinality(Components)
        /\ \A k \in 1..Len(loops) : UndirectedSteps(loops[k]) \in Components

----------------------------------------------------------------------------
(* C24: the post-processing drops the one trailing point of a walk that
   ends on its first point and nothing else, discards what is left with
   fewer than 3 points, and every emitted loop has at least 3 points, its
   first point differing from its last. *)

StoredOpenStep ==
    pc = "post" =>
        LET n == Len(poly)
            q == IF poly[n] = poly[1] THEN SubSeq(poly, 1, n - 1) ELSE poly
        IN  IF Len(q) >= 3
            THEN /\ Len(walked') = Len(walked) + 1
                 /\ walked'[Len(walked')] \in {q, Reverse(q)}
                 /\ Len(loops') = Len(loops) + 1
                 /\ discarded' = discarded
            ELSE /\ discarded' = discarded \cup {q}
                 /\ loops' = loops
                 /\ walked' = walked

StoredOpen ==
    /\ Len(loops) = Len(walked)
    /\ \A k \in 1..Len(loops) :
          /\ Len(loops[k]) >= 3
          /\ Len(walked[k]) >= 3
          /\ loops[k][1] # loops[k][Len(loops[k])]
          /\ walked[k][1] # walked[k][Len(walked[k])]
    /\ \A q \in discarded : Len(q) < 3

StoredOpenLoops == [][StoredOpenStep /\ StoredOpen']_vars

StoredOpenLoopsWitness ==
    /\ pc = "pick"
    /\ Len(loops) >= 1
    /\ poly[Len(poly)] = poly[1]
    /\ Len(walked[Len(walked)]) = Len(poly) - 1

----------------------------------------------------------------------------
(* C25: in a step of the walk the next point is the first entry of the
   adjacency list of cur that is not prev and whose edge with cur is in the
   edge set; that edge leaves the edge set with the step, one edge for the
   one point appended.  The edge set gains no edge after the collection,
   the adjacency map does not change once built, and when the extraction
   has finished no edge was run along twice: the walked sequences hold as
   many steps as there are boundary edges. *)

LiveCandidates ==
    { i \in 1..Len(adj[cur]) :
        adj[cur][i] # prev /\ make_edge(cur, adj[cur][i]) \in edges }

RECURSIVE TotalSteps(_)
TotalSteps(k) == IF k = 0 THEN 0 ELSE Len(walked[k]) + TotalSteps(k - 1)

LiveEdgesStep ==
    /\ (pc = "walk" /\ cur # start) =>
          /\ cur \in DOMAIN adj
          /\ LiveCandidates # {}
          /\ LET i == CHOOSE m \in LiveCandidates : \A j \in LiveCandidates : m <= j
             IN  /\ cur' = adj[cur][i]
                 /\ poly' = Append(poly, adj[cur][i])
                 /\ make_edge(cur, adj[cur][i]) \in edges
                 /\ edges' = edges \ {make_edge(cur, adj[cur][i])}
                 /\ Cardinality(edges') = Cardinality(edges) - 1
    /\ pc # "collect" => edges' \subseteq edges
    /\ pc \notin {"collect", "adj"} => adj' = adj
    /\ pc' = "done" =>
          /\ TotalSteps(Len(walked')) = Cardinality(SeparatingEdges)
          /\ \A e \in SeparatingEdges : Cardinality(Uses(e))' = 1

LiveEdges == [][LiveEdgesStep]_vars

(* a walk through a corner of four boundary edges has finished *)
LiveEdgesWitness ==
    /\ pc = "done"
    /\ PinchCorners # {}
    /\ \E k \in 1..Len(walked) : ~Simple(walked[k])

----------------------------------------------------------------------------
(* C27: the walker never finds itself without a live candidate: every walk
   ends with cur on its start point, holds at least 4 points once the
   trailing duplicate is dropped, and none is discarded. *)

----------------------------------------------------------------------------
(* C28: on a grid with no corner of four boundary edges what the extractor
   emits is fixed by the grid, whatever the start edges and the order of
   the adjacency lists: one loop per component of the boundary-edge graph,
   running along each edge of the component once, in the direction that
   has the solid cell on its right.  Two runs therefore differ only in the
   order of the loops and in the point each loop starts on. *)

(* the direction of boundary edge e that has the solid cell on its right *)
SolidRight(e) ==
    IF RightCell(e[1], e[2]) \in solid THEN e ELSE <<e[2], e[1]>>

(* the edges of a loop are all the edges of a component: a closed polyline
   is connected, and no boundary edge outside it touches it *)
WholeComponent(steps, boundary) ==
    \A e \in boundary :
        (\E u \in steps : Touching(u, e)) => SolidRight(e) \in steps

OrderIndependence ==
    (pc = "done" /\ PinchCorners = {}) =>
        LET boundary == SeparatingEdges
            directed == [k \in 1..Len(loops) |-> UnitSteps(loops[k])]
        IN  /\ UNION { directed[k] : k \in 1..Len(loops) }
                  = { SolidRight(e) : e \in boundary }
            /\ \A k \in 1..Len(loops) :
                  /\ WholeComponent(directed[k], boundary)
                  /\ Cardinality(directed[k]) = Len(walked[k])
                  /\ \A l \in 1..Len(loops) : k # l => directed[k] \cap directed[l] = {}

(* two components, the second walk reversed by the winding correction *)
OrderIndependenceWitness ==
    /\ pc = "done"
    /\ PinchCorners = {}
    /\ Len(loops) >= 2
    /\ flipped

----------------------------------------------------------------------------
(* C26: with the point cap a parameter.  As claimed: a walk is aborted as
   soon as it holds more points than cap; an aborted walk is not closed,
   its points go unchanged through the winding correction and the reduction
   and are emitted; the post-processing leaves the remaining edges in the
   edge set, which is empty when the extraction has finished; and no walk is
   aborted unless the grid has a component of more than cap edges. *)

(* the guard has ended the walk: it is tested after an append in the walk,
   so on a poly of 3 points or more *)
Aborted == pc = "post" /\ Len(poly) > cap /\ Len(poly) >= 3

AbortedStep ==
    Aborted =>
        /\ walked' = Append(walked, Wind(poly))
        /\ loops' = Append(loops, Reduce(Wind(poly)))
        /\ walked'[Len(walked')] \in {poly, Reverse(poly)}
        /\ edges' = edges

SafetyCapAsClaimedStep ==
    /\ pc = "walk" => Len(poly) <= cap
    /\ Aborted => poly[Len(poly)] # poly[1]
    /\ AbortedStep
    /\ pc = "post" => edges' = edges
    /\ pc' = "done" => edges' = {}
    /\ Aborted => \E comp \in Components : Cardinality(comp) > cap

SafetyCapAsClaimed == [][SafetyCapAsClaimedStep]_vars

(* C26, amended: the guard is tested after a point is appended in the
   walk, so a walk in progress holds at most cap points or the 2 it starts
   with; an aborted walk is not closed unless the abort falls on the point
   that closes it, in which case the trailing duplicate is dropped as for
   any closed walk; no walk is aborted unless the grid has a component of
   cap edges or more. *)

SafetyCapStep ==
    /\ pc = "walk" => Len(poly) <= cap \/ Len(poly) = 2
    /\ pc = "post" => Len(poly) <= cap + 1 \/ Len(poly) = 3
    /\ (Aborted /\ cur # start) =>
          /\ poly[Len(poly)] # poly[1]
          /\ AbortedStep
    /\ (Aborted /\ cur = start) =>
          /\ poly[Len(poly)] = poly[1]
          /\ walked'[Len(walked')] \in
                { SubSeq(poly, 1, Len(poly) - 1), Reverse(SubSeq(poly, 1, Len(poly) - 1)) }
    /\ pc = "post" => edges' = edges
    /\ pc' = "done" => edges' = {}
    /\ Aborted => \E comp \in Components : Cardinality(comp) >= cap

SafetyCap == [][SafetyCapStep]_vars

(* a walk was aborted, and what it left was walked as an open chain *)
SafetyCapWitness ==
    /\ pc = "done"
    /\ Len(walked) >= 2
    /\ \E k \in 1..Len(walked) : Len(walked[k]) = cap + 1
    /\ \E k \in 1..Len(walked) :
          Dist(walked[k][1], walked[k][Len(walked[k])]) > 1

----------------------------------------------------------------------------
(* C29: the body created for the layer is in layer_bodies once, whether the
   layer has no loop, one or several, and the destructor calls
   b2DestroyBody on it once. *)

BodyBookkeeping ==
    /\ pc \in {"built", "destroyed"} => \A b \in created : Recorded(b) = 1
    /\ pc = "destroyed" => \A b \in created : destroy_calls[b] = 1

----------------------------------------------------------------------------
(* C21: get_object returns a pooled object that was not active, or, when
   every pooled object is active and only then, a new one; the object is
   active afterwards and no other object changes; the object returned has
   not been handed out since it was last returned; the number of pooled
   objects never goes down. *)

ObjectPoolStep ==
    /\ Len(objects') >= Len(objects)
    /\ pool_op' = <<"get_object">> =>
          /\ got' \in 1..Len(objects')
          /\ objects'[got']
          /\ got' \notin lent
          /\ \A i \in 1..Len(objects) : i # got' => objects'[i] = objects[i]
          /\ IF \E i \in 1..Len(objects) : ~objects[i]
             THEN /\ Len(objects') = Len(objects)
                  /\ ~objects[got']
             ELSE /\ Len(objects') = Len(objects) + 1
                  /\ got' = Len(objects')

ObjectPoolSafe == [][ObjectPoolStep]_vars

(* an object handed out, returned and handed out again while another one,
   handed out, stays active *)
ObjectPoolWitness ==
    /\ pool_op = <<"get_object">>
    /\ Len(objects) >= 3
    /\ got = 1
    /\ Cardinality(lent) >= 2
    /\ \E i \in 1..Len(objects) : ~objects[i]

----------------------------------------------------------------------------
(* C30: after every call of add_scene (the name new or already in use),
   go_to_scene (the name known or not), go_to_scene_next,
   go_to_scene_previous and update, current_scene and next_scene are null
   or a scene the map scenes holds, every name of the map is in scene_order
   exactly once, and go_to_scene with an unknown name has left
   current_scene and next_scene as they were. *)

Occurrences(name) == Cardinality({ i \in 1..Len(scene_order) : scene_order[i] = name })

SceneOwnedStep ==
    /\ current_scene' \in {Null} \cup Held'
    /\ next_scene' \in {Null} \cup Held'
    /\ \A name \in DOMAIN scenes' : Occurrences(name)' = 1
    /\ \A i \in 1..Len(scene_order') : scene_order'[i] \in DOMAIN scenes'
    /\ \A name \in Names \ DOMAIN scenes :
          op' = <<"go_to_scene", name>> => UNCHANGED <<current_scene, next_scene>>

CurrentSceneOwned == [][SceneOwnedStep]_vars

====
